---- MODULE Spec2Model ----
(***************************************************************************)
(* Model of src/lib/gemini.ts: analyzeVideo (facet orchestration, the      *)
(* shot-analysis response normalizer, session opening), the process-wide   *)
(* session store activeChatSessions, and askFollowUpQuestion; and of the   *)
(* page that calls them.                                                   *)
(*                                                                         *)
(* Texts are sequences of one-character strings. Each asynchronous         *)
(* function is cut at its awaits: one action is one run of the code from   *)
(* one suspension point to the next.                                       *)
(***************************************************************************)
EXTENDS Integers, Sequences, FiniteSets, TLC

VARIABLES
    activeChatSessions, \* gemini.ts:43   session id -> [videoData, history]
    clock,              \* Date.now()     milliseconds since process start
    task,               \* analyzeVideo invocations: locals + suspension point
    ask,                \* askFollowUpQuestion invocations
    chats,              \* the ChatSession objects made by startChat, in order
    rawText,            \* normalizer run: the model's raw shot-analysis text
    cleanResponse,      \* normalizer run: the text being cleaned
    normPc,             \* normalizer run: position in the pipeline
    normShots,          \* normalizer run: resulting shotAnalysis list
    youtubeUrl,         \* page state: the text of the YouTube URL field
    urlError,           \* page state: the message under the field, or null
    inputMethod,        \* page state: "file" or "youtube"
    videoFile,          \* page state: the chosen file, or none
    isAnalyzing,        \* page state: an analysis is running
    analysisResult,     \* page state: the result displayed, or none
    followUpQuestion,   \* page state: the text of the question field
    isAskingQuestion,   \* page state: a question awaits its answer
    chatHistory,        \* page state: the messages displayed
    pendingAnalyze,     \* the suspended handleAnalyze: its analyzeVideo call
    pendingAsk          \* the suspended handleAskQuestion: its call

vars == <<activeChatSessions, clock, task, ask, chats,
          rawText, cleanResponse, normPc, normShots, youtubeUrl, urlError,
          inputMethod, videoFile, isAnalyzing, analysisResult,
          followUpQuestion, isAskingQuestion, chatHistory,
          pendingAnalyze, pendingAsk>>

orchVars == <<activeChatSessions, clock, task, ask, chats>>
normVars == <<rawText, cleanResponse, normPc, normShots>>
urlVars  == <<youtubeUrl, urlError>>
chatVars == <<inputMethod, videoFile, isAnalyzing, analysisResult,
              followUpQuestion, isAskingQuestion, chatHistory,
              pendingAnalyze, pendingAsk>>
pageVars == <<urlVars, chatVars>>

-----------------------------------------------------------------------------
(* Characters and character classes of the regular expressions.            *)

Lower == {"a","b","c","d","e","f","g","h","i","j","k","l","m",
          "n","o","p","q","r","s","t","u","v","w","x","y","z"}
Upper == {"A","B","C","D","E","F","G","H","I","J","K","L","M",
          "N","O","P","Q","R","S","T","U","V","W","X","Y","Z"}
Digit == {"0","1","2","3","4","5","6","7","8","9"}

\* \s of the regular expressions (and the whitespace JSON.parse skips)
Space == {" ", "\n", "\t", "\r"}
\* [a-zA-Z0-9_]
WordChar == Lower \cup Upper \cup Digit \cup {"_"}
\* [a-zA-Z0-9_-]
ValueChar == WordChar \cup {"-"}

Min(S) == CHOOSE x \in S : \A y \in S : x <= y
Max(S) == CHOOSE x \in S : \A y \in S : x >= y

\* s.slice(from - 1, to) with 1-based inclusive bounds; empty when from > to
Slice(s, from, to) == IF from > to THEN << >> ELSE SubSeq(s, from, to)

\* first index >= i whose character is outside class, Len(s) + 1 if none:
\* where a greedy class* starting at i stops
SkipClass(s, i, class) ==
    LET stop == {k \in i..Len(s) : s[k] \notin class}
    IN  IF stop = {} THEN Len(s) + 1 ELSE Min(stop)

\* does the literal lit occur in s at index i
LitAt(s, i, lit) ==
    /\ i >= 1
    /\ i + Len(lit) - 1 <= Len(s)
    /\ SubSeq(s, i, i + Len(lit) - 1) = lit

\* A match of a regular expression at index i is a record
\* [end |-> first index after the match (0 when there is none),
\*  out |-> the replacement text].
NoMatch == [end |-> 0, out |-> << >>]

-----------------------------------------------------------------------------
(* gemini.ts:201-204  removal of the markdown fences, then trimming.       *)

\* the grave accent (U+0060), which a TLA+ string cannot hold
Backtick  == "GRAVE"
Fence     == <<Backtick, Backtick, Backtick>>
FenceJson == Fence \o <<"j","s","o","n">>

\* the fence followed by json, then \s*, g flag -> ''
MatchFenceJson(s, i) ==
    IF LitAt(s, i, FenceJson)
    THEN [end |-> SkipClass(s, i + Len(FenceJson), Space), out |-> << >>]
    ELSE NoMatch

\* the fence, then \s*, g flag -> ''
MatchFence(s, i) ==
    IF LitAt(s, i, Fence)
    THEN [end |-> SkipClass(s, i + Len(Fence), Space), out |-> << >>]
    ELSE NoMatch

\* /^\s*|\s*$/g -> '' : the leading and the trailing run of whitespace
Trim(s) ==
    LET kept == {k \in 1..Len(s) : s[k] \notin Space}
    IN  IF kept = {} THEN << >> ELSE SubSeq(s, Min(kept), Max(kept))

-----------------------------------------------------------------------------
(* gemini.ts:207-211  cut to the span from the first { to the last }.      *)

\* indexOf / lastIndexOf, 1-based; 0 stands for JavaScript's -1
IndexOf(s, c) ==
    LET at == {k \in 1..Len(s) : s[k] = c}
    IN  IF at = {} THEN 0 ELSE Min(at)
LastIndexOf(s, c) ==
    LET at == {k \in 1..Len(s) : s[k] = c}
    IN  IF at = {} THEN 0 ELSE Max(at)

SliceBraces(text) ==
    LET firstBrace == IndexOf(text, "{")
        lastBrace  == LastIndexOf(text, "}")
    IN  IF firstBrace # 0 /\ lastBrace # 0
        THEN Slice(text, firstBrace, lastBrace)
        ELSE text

-----------------------------------------------------------------------------
(* gemini.ts:214-219  the chain of textual repairs.                        *)

Quote == "\""
Undefined == <<"u","n","d","e","f","i","n","e","d">>
NullText  == <<"n","u","l","l">>

\* /([{,])\s*([a-zA-Z0-9_]+)\s*:/g -> '$1"$2":'
MatchPropertyName(s, i) ==
    IF s[i] \notin {"{", ","} THEN NoMatch
    ELSE LET a == SkipClass(s, i + 1, Space)
             b == SkipClass(s, a, WordChar)
             c == SkipClass(s, b, Space)
         IN  IF b > a /\ c <= Len(s) /\ s[c] = ":"
             THEN [end |-> c + 1,
                   out |-> <<s[i], Quote>> \o SubSeq(s, a, b - 1) \o <<Quote, ":">>]
             ELSE NoMatch

\* /:\s*([a-zA-Z0-9_-]+)\s*([,}])/g -> ':"$1"$2'
MatchStringValue(s, i) ==
    IF s[i] # ":" THEN NoMatch
    ELSE LET a == SkipClass(s, i + 1, Space)
             b == SkipClass(s, a, ValueChar)
             c == SkipClass(s, b, Space)
         IN  IF b > a /\ c <= Len(s) /\ s[c] \in {",", "}"}
             THEN [end |-> c + 1,
                   out |-> <<":", Quote>> \o SubSeq(s, a, b - 1) \o <<Quote, s[c]>>]
             ELSE NoMatch

\* /:\s*([a-zA-Z0-9_-]+)\s*$/g -> ':"$1"'
MatchLastStringValue(s, i) ==
    IF s[i] # ":" THEN NoMatch
    ELSE LET a == SkipClass(s, i + 1, Space)
             b == SkipClass(s, a, ValueChar)
             c == SkipClass(s, b, Space)
         IN  IF b > a /\ c = Len(s) + 1
             THEN [end |-> c,
                   out |-> <<":", Quote>> \o SubSeq(s, a, b - 1) \o <<Quote>>]
             ELSE NoMatch

\* MatchTrailingComma with '' as the replacement: the blanks and the closing
\* character go with the comma
MatchTrailingCommaDropsCloser(s, i) ==
    IF s[i] # "," THEN NoMatch
    ELSE LET a == SkipClass(s, i + 1, Space)
         IN  IF a <= Len(s) /\ s[a] \in {"}", "]"}
             THEN [end |-> a + 1, out |-> << >>]
             ELSE NoMatch

\* /,(\s*[}\]])/g -> '$1'
MatchTrailingComma(s, i) ==
    IF s[i] # "," THEN NoMatch
    ELSE LET a == SkipClass(s, i + 1, Space)
         IN  IF a <= Len(s) /\ s[a] \in {"}", "]"}
             THEN [end |-> a + 1, out |-> SubSeq(s, i + 1, a)]
             ELSE NoMatch

\* /([{,])\s*([a-zA-Z0-9_]+)\s*:\s*undefined/g -> '$1"$2":null'
MatchUndefined(s, i) ==
    IF s[i] \notin {"{", ","} THEN NoMatch
    ELSE LET a == SkipClass(s, i + 1, Space)
             b == SkipClass(s, a, WordChar)
             c == SkipClass(s, b, Space)
             d == SkipClass(s, c + 1, Space)
         IN  IF b > a /\ c <= Len(s) /\ s[c] = ":" /\ LitAt(s, d, Undefined)
             THEN [end |-> d + Len(Undefined),
                   out |-> <<s[i], Quote>> \o SubSeq(s, a, b - 1)
                           \o <<Quote, ":">> \o NullText]
             ELSE NoMatch

\* the regular expressions of gemini.ts:202-203 and 215-219
MatchAt(regex, s, i) ==
    CASE regex = "fenceJson"       -> MatchFenceJson(s, i)
      [] regex = "fence"           -> MatchFence(s, i)
      [] regex = "propertyName"    -> MatchPropertyName(s, i)
      [] regex = "stringValue"     -> MatchStringValue(s, i)
      [] regex = "lastStringValue" -> MatchLastStringValue(s, i)
      [] regex = "trailingComma"   -> MatchTrailingComma(s, i)
      [] regex = "undefined"       -> MatchUndefined(s, i)

\* String.prototype.replace with a g-flagged regular expression: scan left
\* to right, replace each match and resume after it
ReplaceAll(s, regex) ==
    LET starts == {k \in 1..Len(s) : MatchAt(regex, s, k).end > 0}
        R[i \in 1..(Len(s) + 1)] ==
            LET later == {k \in starts : k >= i}
            IN  IF later = {} THEN Slice(s, i, Len(s))
                ELSE LET k == Min(later)
                         m == MatchAt(regex, s, k)
                     IN  Slice(s, i, k - 1) \o m.out \o R[m.end]
    IN  R[1]

\* StripFences with a fence pattern that also takes a language tag of any
\* non-blank characters after the fence
StripFencesAnyTag(text) ==
    LET starts == {k \in 1..Len(text) : LitAt(text, k, Fence)}
        R[i \in 1..(Len(text) + 1)] ==
            LET later == {k \in starts : k >= i}
            IN  IF later = {} THEN Slice(text, i, Len(text))
                ELSE LET k      == Min(later)
                         blanks == {b \in (k + Len(Fence))..Len(text) : text[b] \in Space}
                         tagEnd == IF blanks = {} THEN Len(text) + 1 ELSE Min(blanks)
                     IN  Slice(text, i, k - 1) \o R[SkipClass(text, tagEnd, Space)]
    IN  Trim(R[1])

\* gemini.ts:201-204
StripFences(text) ==
    Trim(ReplaceAll(ReplaceAll(text, "fenceJson"), "fence"))

\* gemini.ts:215-217: the text handed to the trailing-comma repair
FixNamesAndValues(text) ==
    ReplaceAll(ReplaceAll(ReplaceAll(text, "propertyName"), "stringValue"),
               "lastStringValue")

\* gemini.ts:214-219
FixJson(text) ==
    ReplaceAll(ReplaceAll(FixNamesAndValues(text), "trailingComma"), "undefined")

\* gemini.ts:201-219 as one function: the text handed to JSON.parse
CleanResponse(text) == FixJson(SliceBraces(StripFences(text)))

-----------------------------------------------------------------------------
(* gemini.ts:224  JSON.parse, on texts without backslash escapes.          *)
(* A parsed value is a tagged tuple; an object is a function from its      *)
(* keys to its values (a repeated key keeps its last value); a number is   *)
(* mantissa and decimal exponent with no trailing zero in the mantissa.    *)

JNull      == <<"null">>
JBool(b)   == <<"bool", b>>
JNum(m, e) == <<"num", m, e>>
JStr(cs)   == <<"str", cs>>
JArr(xs)   == <<"arr", xs>>
JObj(f)    == <<"obj", f>>

EmptyObj == [k \in {} |-> JNull]
Put(f, key, v) == [k \in (DOMAIN f) \cup {key} |-> IF k = key THEN v ELSE f[k]]

ParseFail     == [ok |-> FALSE, val |-> JNull, pos |-> 0]
ParseOk(v, p) == [ok |-> TRUE, val |-> v, pos |-> p]

\* characters a JSON string may not hold unescaped
Control == {"\n", "\t", "\r"}

CharAt(s, i, class) == i >= 1 /\ i <= Len(s) /\ s[i] \in class

DigitSeq == <<"0","1","2","3","4","5","6","7","8","9">>
DigitVal(c) == (CHOOSE n \in 1..10 : DigitSeq[n] = c) - 1

RECURSIVE ToInt(_)
ToInt(ds) ==
    IF ds = << >> THEN 0
    ELSE ToInt(SubSeq(ds, 1, Len(ds) - 1)) * 10 + DigitVal(ds[Len(ds)])

RECURSIVE Canon(_, _)
Canon(m, e) ==
    IF m = 0 THEN JNum(0, 0)
    ELSE IF m % 10 = 0 THEN Canon(m \div 10, e + 1)
    ELSE JNum(m, e)

\* s[i] is the opening quote
ParseString(s, i) ==
    LET close == {k \in (i + 1)..Len(s) : s[k] = Quote}
    IN  IF close = {} THEN ParseFail
        ELSE LET j    == Min(close)
                 body == Slice(s, i + 1, j - 1)
             IN  IF \E k \in 1..Len(body) : body[k] \in Control
                 THEN ParseFail
                 ELSE ParseOk(JStr(body), j + 1)

\* -?(0|[1-9][0-9]*)(\.[0-9]+)?([eE][+-]?[0-9]+)?
ParseNumber(s, i) ==
    LET neg      == CharAt(s, i, {"-"})
        p        == IF neg THEN i + 1 ELSE i
        intEnd   == IF CharAt(s, p, {"0"}) THEN p + 1 ELSE SkipClass(s, p, Digit)
        hasFrac  == CharAt(s, intEnd, {"."})
        fracEnd  == IF hasFrac THEN SkipClass(s, intEnd + 1, Digit) ELSE intEnd
        hasExp   == CharAt(s, fracEnd, {"e", "E"})
        signed   == hasExp /\ CharAt(s, fracEnd + 1, {"+", "-"})
        expStart == IF signed THEN fracEnd + 2 ELSE fracEnd + 1
        expEnd   == IF hasExp THEN SkipClass(s, expStart, Digit) ELSE fracEnd
        frac     == IF hasFrac THEN Slice(s, intEnd + 1, fracEnd - 1) ELSE << >>
        mant     == ToInt(Slice(s, p, intEnd - 1) \o frac)
        expAbs   == IF hasExp THEN ToInt(Slice(s, expStart, expEnd - 1)) ELSE 0
        exp      == IF signed /\ s[fracEnd + 1] = "-" THEN 0 - expAbs ELSE expAbs
    IN  IF \/ intEnd = p
           \/ hasFrac /\ fracEnd = intEnd + 1
           \/ hasExp /\ expEnd = expStart
        THEN ParseFail
        ELSE ParseOk(Canon(IF neg THEN 0 - mant ELSE mant, exp - Len(frac)), expEnd)

RECURSIVE ParseValue(_, _)
RECURSIVE ParseMembers(_, _, _)
RECURSIVE ParseElements(_, _, _)

\* after a { or a comma: "key" : value, then a comma or the closing }
ParseMembers(s, i, acc) ==
    LET p == SkipClass(s, i, Space)
    IN  IF ~CharAt(s, p, {Quote}) THEN ParseFail
        ELSE LET key == ParseString(s, p)
                 q   == IF key.ok THEN SkipClass(s, key.pos, Space) ELSE 0
             IN  IF ~key.ok \/ ~CharAt(s, q, {":"}) THEN ParseFail
                 ELSE LET v == ParseValue(s, q + 1)
                          r == IF v.ok THEN SkipClass(s, v.pos, Space) ELSE 0
                      IN  IF ~v.ok THEN ParseFail
                          ELSE IF CharAt(s, r, {","})
                          THEN ParseMembers(s, r + 1, Put(acc, key.val[2], v.val))
                          ELSE IF CharAt(s, r, {"}"})
                          THEN ParseOk(JObj(Put(acc, key.val[2], v.val)), r + 1)
                          ELSE ParseFail

\* after a [ or a comma: value, then a comma or the closing ]
ParseElements(s, i, acc) ==
    LET v == ParseValue(s, i)
        r == IF v.ok THEN SkipClass(s, v.pos, Space) ELSE 0
    IN  IF ~v.ok THEN ParseFail
        ELSE IF CharAt(s, r, {","})
        THEN ParseElements(s, r + 1, Append(acc, v.val))
        ELSE IF CharAt(s, r, {"]"})
        THEN ParseOk(JArr(Append(acc, v.val)), r + 1)
        ELSE ParseFail

ParseValue(s, i) ==
    LET p == SkipClass(s, i, Space)
    IN  IF p > Len(s) THEN ParseFail
        ELSE IF s[p] = "{"
        THEN LET q == SkipClass(s, p + 1, Space)
             IN  IF CharAt(s, q, {"}"}) THEN ParseOk(JObj(EmptyObj), q + 1)
                 ELSE ParseMembers(s, p + 1, EmptyObj)
        ELSE IF s[p] = "["
        THEN LET q == SkipClass(s, p + 1, Space)
             IN  IF CharAt(s, q, {"]"}) THEN ParseOk(JArr(<< >>), q + 1)
                 ELSE ParseElements(s, p + 1, << >>)
        ELSE IF s[p] = Quote THEN ParseString(s, p)
        ELSE IF LitAt(s, p, <<"t","r","u","e">>) THEN ParseOk(JBool(TRUE), p + 4)
        ELSE IF LitAt(s, p, <<"f","a","l","s","e">>) THEN ParseOk(JBool(FALSE), p + 5)
        ELSE IF LitAt(s, p, NullText) THEN ParseOk(JNull, p + 4)
        ELSE ParseNumber(s, p)

\* JSON.parse(text): ok is FALSE where JSON.parse throws a SyntaxError
JSONParse(text) ==
    LET r == ParseValue(text, 1)
    IN  IF r.ok /\ SkipClass(text, r.pos, Space) = Len(text) + 1
        THEN [ok |-> TRUE, val |-> r.val]
        ELSE [ok |-> FALSE, val |-> JNull]

-----------------------------------------------------------------------------
(* gemini.ts:224-230  accept the parsed response.                          *)

ShotsKey == <<"s","h","o","t","s">>

\* JavaScript truthiness of a parsed value
Truthy(v) ==
    /\ v[1] # "null"
    /\ v[1] = "bool" => v[2]
    /\ v[1] = "num" => v[2] # 0
    /\ v[1] = "str" => v[2] # << >>

\* Array.isArray(parsedResponse.shots): only an object has a shots property
HasShotsArray(v) ==
    /\ v[1] = "obj"
    /\ ShotsKey \in DOMAIN v[2]
    /\ v[2][ShotsKey][1] = "arr"

\* AcceptShots taking a top-level array as the shots as well
AcceptShotsOrArray(parsed) ==
    IF parsed.ok /\ Truthy(parsed.val) /\ HasShotsArray(parsed.val)
    THEN parsed.val[2][ShotsKey][2]
    ELSE IF parsed.ok /\ parsed.val[1] = "arr" THEN parsed.val[2]
    ELSE << >>

\* the value of shotAnalysis after the try block: [] unless the parse
\* succeeded and parsedResponse.shots is an array
AcceptShots(parsed) ==
    IF parsed.ok /\ Truthy(parsed.val) /\ HasShotsArray(parsed.val)
    THEN parsed.val[2][ShotsKey][2]
    ELSE << >>

\* NormalizeShots keeping only the records that have a property
NormalizeShotsNonEmptyOnly(raw) ==
    SelectSeq(AcceptShots(JSONParse(CleanResponse(raw))),
              LAMBDA v : v[1] = "obj" /\ DOMAIN v[2] # {})

\* gemini.ts:199-230: shotAnalysis from the raw text of the response
NormalizeShots(raw) == AcceptShots(JSONParse(CleanResponse(raw)))

\* the same pipeline for the lip-flap facet (specification 4.4, step 6: the
\* named array field is lipFlaps)
LipFlapsKey == <<"l","i","p","F","l","a","p","s">>

AcceptLipFlaps(parsed) ==
    IF /\ parsed.ok
       /\ parsed.val[1] = "obj"
       /\ LipFlapsKey \in DOMAIN parsed.val[2]
       /\ parsed.val[2][LipFlapsKey][1] = "arr"
    THEN parsed.val[2][LipFlapsKey][2]
    ELSE << >>

NormalizeLipFlaps(raw) == AcceptLipFlaps(JSONParse(CleanResponse(raw)))

-----------------------------------------------------------------------------
(* Bounds of the model and the inputs drawn by the actions.                *)

NumAskers  == 2     \* askFollowUpQuestion invocations in one behaviour
MaxClock   == 1     \* last value of Date.now() in one behaviour
MaxMembers == 2     \* properties of a shot record in a generated raw text
MaxShots   == 3     \* records of a generated array of several shots

Tasks  == {1, 2}    \* the analyzeVideo invocations of one behaviour
Askers == 1..NumAskers

Undef == "undefined"

QuotedText(cs) == <<Quote>> \o cs \o <<Quote>>

ClipFile   == [name |-> "clip.mp4", type |-> "video/mp4"]
YouTubeUrl == "https://youtu.be/dQw4w9WgXcQ"

\* the arguments analyzeVideo can be called with (gemini.ts:32-40)
Sources ==
    {[type |-> "file", data |-> ClipFile], [type |-> "youtube", data |-> YouTubeUrl]}
Flags ==
    [includeSummary : {"true", "false", Undef},
     includeShotAnalysis : BOOLEAN,
     includeTranscription : BOOLEAN,
     includeVisualDescription : BOOLEAN]
CustomPrompts == {Undef, "What happens at the end?"}

\* gemini.ts:89-92
DefaultSummaryPrompt == "Please analyze this video and provide a detailed summary"
TranscriptionPrompt  == "Please transcribe the speech in this video"
VisualPrompt         == "Please provide a detailed visual description"
ShotAnalysisPrompt   == "Analyze this video and identify all different shots"

\* customPrompt || default: an empty custom prompt is falsy too
SummaryPrompt(src) ==
    IF src.customPrompt \in {Undef, ""} THEN DefaultSummaryPrompt
    ELSE src.customPrompt

\* A generateContent call ends in one of three ways: the promise rejects,
\* or it resolves and response.text() throws (a blocked response), or
\* text() returns a text.
Blocked  == "blocked"
\* the texts text() can return for the three prose facets, the empty text
\* (a response without candidates) among them
Replies(facet) ==
    CASE facet = "summary"       -> {"", "a summary"}
      [] facet = "transcription" -> {"", "a transcript"}
      [] facet = "visual"        -> {"", "a description"}

\* the texts text() can return for the shot-analysis facet
WellFormedShots ==      \* {"shots":[{"lens":"deep"}]}
    <<"{", Quote,"s","h","o","t","s",Quote, ":", "[", "{", Quote,"l","e","n","s",Quote,
      ":", Quote,"d","e","e","p",Quote, "}", "]", "}">>
FencedBareShots ==      \* fence json, newline, {shots: [{lens: deep,}]}, newline, fence
    FenceJson \o <<"\n", "{", "s","h","o","t","s", ":", " ", "[", "{", "l","e","n","s",
      ":", " ", "d","e","e","p", ",", "}", "]", "}", "\n">> \o Fence
NoBraces ==             \* no shots
    <<"n","o"," ","s","h","o","t","s">>
NoShotsField ==         \* {"lens":"deep"}
    <<"{", Quote,"l","e","n","s",Quote, ":", Quote,"d","e","e","p",Quote, "}">>
Unparseable ==          \* {"shots":[}
    <<"{", Quote,"s","h","o","t","s",Quote, ":", "[", "}">>
RawShotTexts == {WellFormedShots, FencedBareShots, NoBraces, NoShotsField, Unparseable}

\* the texts text() can return for the lip-flap facet:
\*   {"lipFlaps":[{"character":"a"},{"confidence":90}]}
\*   fence, newline, {lipFlaps: [{character: a,}]}, newline, fence
\*   a shots object, and a text without braces
RawLipFlapTexts ==
    LET wellFormed ==
            <<"{">> \o QuotedText(LipFlapsKey) \o <<":", "[", "{">>
            \o QuotedText(<<"c","h","a","r","a","c","t","e","r">>) \o <<":">> \o QuotedText(<<"a">>) \o <<"}", ",", "{">>
            \o QuotedText(<<"c","o","n","f","i","d","e","n","c","e">>) \o <<":", "9", "0", "}", "]", "}">>
        fencedBare ==
            Fence \o <<"\n", "{">> \o LipFlapsKey \o <<":", " ", "[", "{">>
            \o <<"c","h","a","r","a","c","t","e","r">> \o <<":", " ", "a", ",", "}", "]", "}", "\n">> \o Fence
    IN  {wellFormed, fencedBare, WellFormedShots, NoBraces}

GenericFailure  == "Failed to analyze video. Please try again."
FollowUpFailure == "Failed to get a response. Please try again."

Questions == {"who speaks?"}
Answers   == {"answer"}

-----------------------------------------------------------------------------
(* analyzeVideo, gemini.ts:64-288.                                         *)

EmptyRec == [k \in {} |-> 0]
\* a property of a result object: left out when its value is undefined
Opt(name, present, v) == IF present THEN name :> v ELSE EmptyRec

\* the locals of an invocation that has not been made; calls lists the
\* generateContent calls issued, openedAt is what Date.now() returned
IdleTask ==
    [pc |-> "idle", src |-> Undef, videoData |-> Undef,
     summary |-> "", transcription |-> "", visualDescription |-> "",
     shotOutcome |-> "none", shotText |-> << >>, shotAnalysis |-> << >>,
     lipFlapText |-> << >>, lipFlapAnalysis |-> << >>,
     calls |-> << >>, openedAt |-> 0, chat |-> 0, result |-> EmptyRec]

\* generateSessionId without the timestamp
generateSessionIdNoTimestamp(videoSource, now) ==
    IF videoSource.type = "file"
    THEN <<"file", videoSource.data.name, 0>>
    ELSE <<"youtube", videoSource.data, 0>>

\* gemini.ts:56-62; the id is kept as its three parts
generateSessionId(videoSource, now) ==
    IF videoSource.type = "file"
    THEN <<"file", videoSource.data.name, now>>
    ELSE <<"youtube", videoSource.data, now>>

\* FileReader.readAsDataURL, then the part after the comma (gemini.ts:309-324)
fileToBase64(file) == <<"base64 of", file.name>>

\* The lip-flap facet. part_000:71-93 passes includeLipFlapAnalysis and
\* part_000:383-403 renders result.lipFlapAnalysis, but the analyzeVideo of
\* gemini.ts has no such block: the facet is modelled from the
\* specification (sections 4.4 and 4.6), as the last block, parallel to the
\* shot-analysis block, reading the lipFlaps field.
LipFlapRequested(src) ==
    /\ "includeLipFlapAnalysis" \in DOMAIN src
    /\ src.includeLipFlapAnalysis

\* Requested with the summary generated unconditionally
RequestedSummaryAlways(src, facet) ==
    CASE facet = "summary"       -> TRUE
      [] facet = "shot"          -> src.includeShotAnalysis
      [] facet = "transcription" -> src.includeTranscription
      [] facet = "visual"        -> src.includeVisualDescription
      [] facet = "lipFlap"       -> LipFlapRequested(src)

\* gemini.ts:183, 193, 234, 244: the conditions guarding the four calls;
\* the fifth facet is not in this file, see LipFlapRequested
Requested(src, facet) ==
    CASE facet = "summary"       -> src.includeSummary # "false"
      [] facet = "shot"          -> src.includeShotAnalysis
      [] facet = "transcription" -> src.includeTranscription
      [] facet = "visual"        -> src.includeVisualDescription
      [] facet = "lipFlap"       -> LipFlapRequested(src)

\* FacetOrder with the transcription block moved before the shot-analysis
\* block
FacetOrderTranscriptionFirst ==
    <<"summary", "transcription", "shot", "visual", "lipFlap">>

\* the order of the four blocks in the function body, then the lip-flap
\* block of the specification
FacetOrder == <<"summary", "shot", "transcription", "visual", "lipFlap">>
Position(facet) == CHOOSE i \in 1..Len(FacetOrder) : FacetOrder[i] = facet

\* NextCall going back to block number k itself: the call made again
NextCallAgain(src, k) ==
    LET later == {i \in (IF k = 0 THEN 1 ELSE k)..Len(FacetOrder) :
                     Requested(src, FacetOrder[i])}
    IN  IF later = {} THEN "open" ELSE FacetOrder[Min(later)]

\* the next generateContent call the code reaches after block number k,
\* "open" when it reaches the session opening instead
NextCall(src, k) ==
    LET later == {i \in (k + 1)..Len(FacetOrder) : Requested(src, FacetOrder[i])}
    IN  IF later = {} THEN "open" ELSE FacetOrder[Min(later)]

\* SeedHistory seeded with the default prompt whatever the custom prompt
SeedHistoryDefaultPrompt(src, summary) ==
    <<[role |-> "user",  text |-> DefaultSummaryPrompt],
      [role |-> "model", text |-> summary]>>

\* gemini.ts:255-266: startChat with the seeded history
SeedHistory(src, summary) ==
    <<[role |-> "user",  text |-> SummaryPrompt(src)],
      [role |-> "model", text |-> summary]>>

\* SuccessResult without the "|| undefined" on the transcription
SuccessResultKeepsEmpty(t, sessionId) ==
    Opt("summary", t.summary # "", t.summary)
    @@ [transcription |-> t.transcription]
    @@ Opt("visualDescription", t.visualDescription # "", t.visualDescription)
    @@ Opt("shotAnalysis", Len(t.shotAnalysis) > 0, t.shotAnalysis)
    @@ Opt("lipFlapAnalysis", Len(t.lipFlapAnalysis) > 0, t.lipFlapAnalysis)
    @@ [sessionId |-> sessionId]

\* gemini.ts:274-280, and the lipFlapAnalysis of the specification
SuccessResult(t, sessionId) ==
    Opt("summary", t.summary # "", t.summary)
    @@ Opt("transcription", t.transcription # "", t.transcription)
    @@ Opt("visualDescription", t.visualDescription # "", t.visualDescription)
    @@ Opt("shotAnalysis", Len(t.shotAnalysis) > 0, t.shotAnalysis)
    @@ Opt("lipFlapAnalysis", Len(t.lipFlapAnalysis) > 0, t.lipFlapAnalysis)
    @@ [sessionId |-> sessionId]

\* gemini.ts:283-286
FailureResult == [summary |-> "", error |-> GenericFailure]

\* Catch returning what the invocation has gathered when it fails
CatchKeepsSummary(a) ==
    /\ task' = [task EXCEPT ![a].pc = "failed",
                            ![a].result = [summary |-> task[a].summary,
                                           error |-> GenericFailure]]
    /\ UNCHANGED <<activeChatSessions, chats>>

\* gemini.ts:281-287: the catch block of analyzeVideo
Catch(a) ==
    /\ task' = [task EXCEPT ![a].pc = "failed", ![a].result = FailureResult]
    /\ UNCHANGED <<activeChatSessions, chats>>

\* OpenSession on a store that holds the newest session only
OpenSessionKeepsOne(a, t) ==
    LET sessionId == generateSessionId(t.src, clock)
        chat      == Len(chats) + 1
    IN  /\ chats' = Append(chats, [history |-> SeedHistory(t.src, t.summary),
                                   sending |-> << >>])
        /\ activeChatSessions' =
               (sessionId :> [videoData |-> t.videoData, chat |-> chat])
        /\ task' = [task EXCEPT ![a] =
                       [t EXCEPT !.pc = "done", !.openedAt = clock, !.chat = chat,
                                 !.result = SuccessResult(t, sessionId)]]

\* gemini.ts:253-280: open the session and return
OpenSession(a, t) ==
    LET sessionId == generateSessionId(t.src, clock)
        chat      == Len(chats) + 1
    IN  /\ chats' = Append(chats, [history |-> SeedHistory(t.src, t.summary),
                                   sending |-> << >>])
        /\ activeChatSessions' =
               (sessionId :> [videoData |-> t.videoData, chat |-> chat])
               @@ activeChatSessions
        /\ task' = [task EXCEPT ![a] =
                       [t EXCEPT !.pc = "done", !.openedAt = clock, !.chat = chat,
                                 !.result = SuccessResult(t, sessionId)]]

\* the code after block number k, run up to its next await or its return;
\* t is the invocation's locals at that point
Continue(a, t, k) ==
    LET next == NextCall(t.src, k)
    IN  IF next = "open" THEN OpenSession(a, t)
        ELSE /\ task' = [task EXCEPT ![a] =
                            [t EXCEPT !.pc = next, !.calls = Append(@, next)]]
             /\ UNCHANGED <<activeChatSessions, chats>>

\* gemini.ts:64-83: the call itself, up to the first await
AnalyzeVideoCall(a, src) ==
    /\ task[a].pc = "idle"
    /\ IF src.type = "file"
       THEN /\ task' = [task EXCEPT ![a] = [IdleTask EXCEPT !.pc = "encoding", !.src = src]]
            /\ UNCHANGED <<activeChatSessions, chats>>
       ELSE Continue(a, [IdleTask EXCEPT !.src = src,
                                         !.videoData = [text |-> src.data]], 0)

\* analyzeVideo called on its own
AnalyzeVideo(a, src) ==
    /\ AnalyzeVideoCall(a, src)
    /\ UNCHANGED <<clock, ask, normVars, pageVars>>

\* EncodingDone with the rejection of fileToBase64 swallowed: the run goes on
\* with empty video data
EncodingDoneIgnoresFailure(a) ==
    /\ task[a].pc = "encoding"
    /\ \/ Continue(a, [task[a] EXCEPT !.videoData =
                          [inlineData |-> [data |-> fileToBase64(task[a].src.data),
                                           mimeType |-> task[a].src.data.type]]], 0)
       \/ Continue(a, [task[a] EXCEPT !.videoData =
                          [inlineData |-> [data |-> << >>,
                                           mimeType |-> task[a].src.data.type]]], 0)
    /\ UNCHANGED <<clock, ask, normVars, pageVars>>

\* gemini.ts:70-77: fileToBase64 settles
EncodingDone(a) ==
    /\ task[a].pc = "encoding"
    /\ \/ Continue(a, [task[a] EXCEPT !.videoData =
                          [inlineData |-> [data |-> fileToBase64(task[a].src.data),
                                           mimeType |-> task[a].src.data.type]]], 0)
       \/ Catch(a)
    /\ UNCHANGED <<clock, ask, normVars, pageVars>>

\* SummaryDone dropping the stored sessions when the call fails
SummaryDoneFailureClearsStore(a) ==
    /\ task[a].pc = "summary"
    /\ \/ \E text \in Replies("summary") :
              Continue(a, [task[a] EXCEPT !.summary = text], Position("summary"))
       \/ /\ task' = [task EXCEPT ![a].pc = "failed", ![a].result = FailureResult]
          /\ activeChatSessions' = EmptyRec
          /\ UNCHANGED chats
    /\ UNCHANGED <<clock, ask, normVars, pageVars>>

\* gemini.ts:184-190: the summary call settles
SummaryDone(a) ==
    /\ task[a].pc = "summary"
    /\ \/ \E text \in Replies("summary") :
              Continue(a, [task[a] EXCEPT !.summary = text], Position("summary"))
       \/ Catch(a)
    /\ UNCHANGED <<clock, ask, normVars, pageVars>>

\* ShotAnalysisDone without the inner try/catch: a text that yields no shots
\* leaves through the outer catch
ShotAnalysisDoneUncaught(a) ==
    /\ task[a].pc = "shot"
    /\ \/ \E raw \in RawShotTexts :
              LET t == [task[a] EXCEPT !.shotOutcome = "text", !.shotText = raw,
                                       !.shotAnalysis = NormalizeShots(raw)]
              IN  IF t.shotAnalysis = << >>
                  THEN /\ task' = [task EXCEPT ![a] =
                                      [t EXCEPT !.pc = "failed",
                                                !.result = FailureResult]]
                       /\ UNCHANGED <<activeChatSessions, chats>>
                  ELSE Continue(a, t, Position("shot"))
       \/ Catch(a)
    /\ UNCHANGED <<clock, ask, normVars, pageVars>>

\* gemini.ts:194-231: the shot-analysis call settles. A rejected call leaves
\* through the outer catch; text() is first called inside the inner try, so
\* a text() that throws is caught there like a parse error
ShotAnalysisDone(a) ==
    /\ task[a].pc = "shot"
    /\ \/ \E raw \in RawShotTexts :
              Continue(a, [task[a] EXCEPT !.shotOutcome = "text",
                                          !.shotText = raw,
                                          !.shotAnalysis = NormalizeShots(raw)],
                       Position("shot"))
       \/ Continue(a, [task[a] EXCEPT !.shotOutcome = Blocked], Position("shot"))
       \/ Catch(a)
    /\ UNCHANGED <<clock, ask, normVars, pageVars>>

\* gemini.ts:235-241: the transcription call settles
TranscriptionDone(a) ==
    /\ task[a].pc = "transcription"
    /\ \/ \E text \in Replies("transcription") :
              Continue(a, [task[a] EXCEPT !.transcription = text],
                       Position("transcription"))
       \/ Catch(a)
    /\ UNCHANGED <<clock, ask, normVars, pageVars>>

\* gemini.ts:245-251: the visual-description call settles
VisualDescriptionDone(a) ==
    /\ task[a].pc = "visual"
    /\ \/ \E text \in Replies("visual") :
              Continue(a, [task[a] EXCEPT !.visualDescription = text],
                       Position("visual"))
       \/ Catch(a)
    /\ UNCHANGED <<clock, ask, normVars, pageVars>>

\* LipFlapAnalysisDone keeping the records of the shots field
LipFlapAnalysisDoneFromShots(a) ==
    /\ task[a].pc = "lipFlap"
    /\ \/ \E raw \in RawLipFlapTexts :
              Continue(a, [task[a] EXCEPT !.lipFlapText = raw,
                                          !.lipFlapAnalysis = NormalizeShots(raw)],
                       Position("lipFlap"))
       \/ Catch(a)
    /\ UNCHANGED <<clock, ask, normVars, pageVars>>

\* specification 4.6: the lip-flap call settles; its text goes through the
\* normalizer; a failed call leaves through the catch block
LipFlapAnalysisDone(a) ==
    /\ task[a].pc = "lipFlap"
    /\ \/ \E raw \in RawLipFlapTexts :
              Continue(a, [task[a] EXCEPT !.lipFlapText = raw,
                                          !.lipFlapAnalysis = NormalizeLipFlaps(raw)],
                       Position("lipFlap"))
       \/ Catch(a)
    /\ UNCHANGED <<clock, ask, normVars, pageVars>>

\* Date.now() moves on
Tick ==
    /\ clock < MaxClock
    /\ clock' = clock + 1
    /\ UNCHANGED <<activeChatSessions, task, ask, chats, normVars, pageVars>>

-----------------------------------------------------------------------------
(* askFollowUpQuestion, gemini.ts:291-306.                                 *)

IdleAsk == [pc |-> "idle", sessionId |-> << >>, question |-> "", chat |-> 0,
            result |-> ""]

\* a session id no analysis has produced
UnknownSessionId == <<"youtube", "https://youtu.be/0000000000_", 0>>

\* gemini.ts:293-299: the call, up to the await on chat.sendMessage; an
\* unknown id throws and the catch block returns the failure text at once.
\* ChatSession.sendMessage chains its request behind the sends in flight.
AskFollowUpQuestionCall(q, sessionId, question) ==
    /\ ask[q].pc = "idle"
    /\ IF sessionId \notin DOMAIN activeChatSessions
       THEN /\ ask' = [ask EXCEPT ![q] =
                          [IdleAsk EXCEPT !.pc = "returned", !.sessionId = sessionId,
                                          !.question = question,
                                          !.result = FollowUpFailure]]
            /\ UNCHANGED chats
       ELSE LET chat == activeChatSessions[sessionId].chat
            IN  /\ ask' = [ask EXCEPT ![q] =
                              [IdleAsk EXCEPT !.pc = "sending", !.sessionId = sessionId,
                                              !.question = question, !.chat = chat]]
                /\ chats' = [chats EXCEPT ![chat].sending = Append(@, q)]

\* AskFollowUpQuestion without its try/catch: the Error thrown for an
\* unknown id leaves the function
AskFollowUpQuestionUncaught(q, sessionId, question) ==
    /\ ask[q].pc = "idle"
    /\ IF sessionId \notin DOMAIN activeChatSessions
       THEN /\ ask' = [ask EXCEPT ![q] =
                          [IdleAsk EXCEPT !.pc = "raised", !.sessionId = sessionId,
                                          !.question = question]]
            /\ UNCHANGED chats
       ELSE LET chat == activeChatSessions[sessionId].chat
            IN  /\ ask' = [ask EXCEPT ![q] =
                              [IdleAsk EXCEPT !.pc = "sending", !.sessionId = sessionId,
                                              !.question = question, !.chat = chat]]
                /\ chats' = [chats EXCEPT ![chat].sending = Append(@, q)]
    /\ UNCHANGED <<activeChatSessions, clock, task, normVars, pageVars>>

\* AskFollowUpQuestion sending on the newest session, whatever the id
AskFollowUpQuestionNewestSession(q, sessionId, question) ==
    /\ ask[q].pc = "idle"
    /\ IF sessionId \notin DOMAIN activeChatSessions
       THEN /\ ask' = [ask EXCEPT ![q] =
                          [IdleAsk EXCEPT !.pc = "returned", !.sessionId = sessionId,
                                          !.question = question,
                                          !.result = FollowUpFailure]]
            /\ UNCHANGED chats
       ELSE LET chat == Len(chats)
            IN  /\ ask' = [ask EXCEPT ![q] =
                              [IdleAsk EXCEPT !.pc = "sending", !.sessionId = sessionId,
                                              !.question = question, !.chat = chat]]
                /\ chats' = [chats EXCEPT ![chat].sending = Append(@, q)]
    /\ UNCHANGED <<activeChatSessions, clock, task, normVars, pageVars>>

\* askFollowUpQuestion called on its own
AskFollowUpQuestion(q, sessionId, question) ==
    /\ AskFollowUpQuestionCall(q, sessionId, question)
    /\ UNCHANGED <<activeChatSessions, clock, task, normVars, pageVars>>

\* SendMessageDone on a chat that does not chain its sends: a request
\* resolves whatever requests were sent on the chat before it
SendMessageDoneAnyOrder(q, answer) ==
    /\ ask[q].pc = "sending"
    /\ chats' = [chats EXCEPT
                    ![ask[q].chat].sending = SelectSeq(@, LAMBDA r : r # q),
                    ![ask[q].chat].history =
                        @ \o <<[role |-> "user",  text |-> ask[q].question],
                               [role |-> "model", text |-> answer]>>]
    /\ ask' = [ask EXCEPT ![q].pc = "returned", ![q].result = answer]
    /\ UNCHANGED <<activeChatSessions, clock, task, normVars, pageVars>>

\* gemini.ts:299-301: sendMessage resolves and text() returns; the chat has
\* pushed the question and the answer onto its history
SendMessageDone(q, answer) ==
    /\ ask[q].pc = "sending"
    /\ chats[ask[q].chat].sending # << >>
    /\ Head(chats[ask[q].chat].sending) = q
    /\ chats' = [chats EXCEPT
                    ![ask[q].chat].sending = Tail(@),
                    ![ask[q].chat].history =
                        @ \o <<[role |-> "user",  text |-> ask[q].question],
                               [role |-> "model", text |-> answer]>>]
    /\ ask' = [ask EXCEPT ![q].pc = "returned", ![q].result = answer]
    /\ UNCHANGED <<activeChatSessions, clock, task, normVars, pageVars>>

\* gemini.ts:302-305: sendMessage rejects or text() throws; the catch block
\* returns the failure text and the chat's history is as it was
SendMessageFailed(q) ==
    /\ ask[q].pc = "sending"
    /\ chats[ask[q].chat].sending # << >>
    /\ Head(chats[ask[q].chat].sending) = q
    /\ chats' = [chats EXCEPT ![ask[q].chat].sending = Tail(@)]
    /\ ask' = [ask EXCEPT ![q].pc = "returned", ![q].result = FollowUpFailure]
    /\ UNCHANGED <<activeChatSessions, clock, task, normVars, pageVars>>

-----------------------------------------------------------------------------
(* The program: any number of overlapping invocations of the two entry     *)
(* points, on one event loop.                                              *)

Args == {src @@ flags @@ [customPrompt |-> c] :
            src \in Sources, flags \in Flags, c \in CustomPrompts}

\* the arguments of the invocations that overlap: no facet, or the summary
OverlapArgs ==
    {a \in Args : /\ a.customPrompt = Undef
                  /\ a.includeSummary \in {"true", "false"}
                  /\ ~a.includeShotAnalysis
                  /\ ~a.includeTranscription
                  /\ ~a.includeVisualDescription}

\* the page before any input: useState("") and useState(null)
NullError == "null"
\* part_000:16-31: the initial state of the page; no file stands for null
NoFile == [name |-> "", type |-> ""]
PageIdle ==
    /\ youtubeUrl = << >>
    /\ urlError = NullError
    /\ inputMethod = "file"
    /\ videoFile = NoFile
    /\ isAnalyzing = FALSE
    /\ analysisResult = EmptyRec
    /\ followUpQuestion = ""
    /\ isAskingQuestion = FALSE
    /\ chatHistory = << >>
    /\ pendingAnalyze = [task |-> 0]
    /\ pendingAsk = [asker |-> 0]

NormIdle ==
    /\ rawText = << >>
    /\ cleanResponse = << >>
    /\ normPc = "off"
    /\ normShots = << >>

Init ==
    /\ activeChatSessions = EmptyRec
    /\ chats = << >>
    /\ clock = 0
    /\ task = [a \in Tasks |-> IdleTask]
    /\ ask = [q \in Askers |-> IdleAsk]
    /\ NormIdle
    /\ PageIdle

\* overlapping analyses and follow-up questions on one event loop
Next ==
    \/ \E a \in Tasks, src \in OverlapArgs : AnalyzeVideo(a, src)
    \/ \E a \in Tasks : EncodingDone(a)
    \/ \E a \in Tasks : SummaryDone(a)
    \/ \E q \in Askers, question \in Questions,
          sessionId \in (DOMAIN activeChatSessions) \cup {UnknownSessionId} :
          AskFollowUpQuestion(q, sessionId, question)
    \/ \E q \in Askers, answer \in Answers : SendMessageDone(q, answer)
    \/ \E q \in Askers : SendMessageFailed(q)
    \/ Tick

Spec == Init /\ [][Next]_vars

\* one analysis, with every combination of arguments and of outcomes
NextAnalysis ==
    \/ \E src \in Args : AnalyzeVideo(1, src)
    \/ EncodingDone(1)
    \/ SummaryDone(1)
    \/ ShotAnalysisDone(1)
    \/ TranscriptionDone(1)
    \/ VisualDescriptionDone(1)
    \/ Tick

SpecAnalysis == Init /\ [][NextAnalysis]_vars

\* follow-up questions that overlap on the sessions of two analyses with no
\* facet requested, one of a file and one of a YouTube URL; the questions
\* and the answers differ, so the order of a history can be read from it
FollowUpArgs ==
    {a \in Args : /\ a.customPrompt = Undef
                  /\ a.includeSummary = "false"
                  /\ ~a.includeShotAnalysis
                  /\ ~a.includeTranscription
                  /\ ~a.includeVisualDescription}
FollowUpQuestions == {"who speaks?", "what happens next?"}
FollowUpAnswers   == {"answer", "another answer"}

NextFollowUp ==
    \/ \E a \in Tasks, src \in FollowUpArgs : AnalyzeVideo(a, src)
    \/ \E a \in Tasks : EncodingDone(a)
    \/ \E q \in Askers, question \in FollowUpQuestions,
          sessionId \in DOMAIN activeChatSessions :
          AskFollowUpQuestion(q, sessionId, question)
    \/ \E q \in Askers, answer \in FollowUpAnswers : SendMessageDone(q, answer)
    \/ \E q \in Askers : SendMessageFailed(q)

SpecFollowUp == Init /\ [][NextFollowUp]_vars

\* one analysis called as the newer page calls it (part_000:71-93): the
\* five flags as booleans, the custom prompt left out
ArgsLipFlap ==
    {src @@ [includeSummary |-> IF flags[1] THEN "true" ELSE "false",
             includeShotAnalysis |-> flags[2],
             includeTranscription |-> flags[3],
             includeVisualDescription |-> flags[4],
             includeLipFlapAnalysis |-> flags[5],
             customPrompt |-> Undef] :
        src \in Sources, flags \in [1..5 -> BOOLEAN]}

NextLipFlap ==
    \/ \E src \in ArgsLipFlap : AnalyzeVideo(1, src)
    \/ EncodingDone(1)
    \/ SummaryDone(1)
    \/ ShotAnalysisDone(1)
    \/ TranscriptionDone(1)
    \/ VisualDescriptionDone(1)
    \/ LipFlapAnalysisDone(1)
    \/ Tick

SpecLipFlap == Init /\ [][NextLipFlap]_vars

-----------------------------------------------------------------------------
(* The normalizer alone (gemini.ts:199-230) on generated raw texts: a      *)
(* shots object holding at most one record, with quoted and bare keys and  *)
(* values, trailing commas, fences, prose around it, or a brace missing.   *)

LensKey  == <<"l","e","n","s">>
DeepText == <<"d","e","e","p">>
\* a string value that itself holds a colon and a comma: a: b, c
ProseText == <<"a", ":", " ", "b", ",", " ", "c">>

\* a bare value as the model emits it: a blank, then a hyphenated token
EyeLevelText == <<"e","y","e","-","l","e","v","e","l">>
BareValue    == <<" ">> \o EyeLevelText

\* the j-th property of a generated record is named FieldNames[j]
FieldNames ==
    <<LensKey, <<"a","n","g","l","e">>, <<"f","r","a","m","e">>,
      <<"c","a","m","e","r","a">>>>

MemberValues == {QuotedText(DeepText), BareValue, Undefined, QuotedText(ProseText)}
MemberForms  == [quotedKey : BOOLEAN, value : MemberValues]

MemberText(j, m) ==
    (IF m.quotedKey THEN QuotedText(FieldNames[j]) ELSE FieldNames[j])
        \o <<":">> \o m.value

RECURSIVE JoinWithCommas(_)
JoinWithCommas(parts) ==
    IF Len(parts) = 1 THEN parts[1]
    ELSE parts[1] \o <<",">> \o JoinWithCommas(Tail(parts))

MemberLists == UNION {[1..n -> MemberForms] : n \in 1..MaxMembers}

\* the record text of a list of members, tc its trailing comma or nothing
RecordText(ms, tc) ==
    <<"{">> \o JoinWithCommas([j \in 1..Len(ms) |-> MemberText(j, ms[j])])
        \o tc \o <<"}">>

Records ==
    {<<"{", "}">>}
    \cup {RecordText(ms, tc) : ms \in MemberLists, tc \in {<< >>, <<",">>}}

\* well-formed records that differ from each other: {}, {"lens":"deep"} and
\* {"lens":"deep","angle":"deep"}
SeveralRecords ==
    LET m == [quotedKey |-> TRUE, value |-> QuotedText(DeepText)]
    IN  {<<"{", "}">>, RecordText(<<m>>, << >>), RecordText(<<m, m>>, << >>)}

\* the lists of two to MaxShots such records
ShotLists == UNION {[1..n -> SeveralRecords] : n \in 2..MaxShots}

ArrayText(rs) == <<"[">> \o JoinWithCommas(rs) \o <<"]">>

ShotArrays ==
    {<<"[", "]">>}
    \cup {<<"[">> \o r \o tc \o <<"]">> : r \in Records, tc \in {<< >>, <<",">>}}
    \cup {ArrayText(rs) : rs \in ShotLists}

ShotsObject(key, array) == <<"{">> \o key \o <<":">> \o array \o <<"}">>

Without(s, ch) == SelectSeq(s, LAMBDA c : c # ch)

Wrappers ==
    {[pre |-> FenceJson \o <<"\n">>, post |-> <<"\n">> \o Fence],
     [pre |-> Fence \o <<"\n">>,     post |-> <<"\n">> \o Fence],
     [pre |-> <<"o","k",":"," ">>,   post |-> <<" ">>]}

CoreTexts == {ShotsObject(QuotedText(ShotsKey), arr) : arr \in ShotArrays}

NormInputs ==
    CoreTexts
    \cup {ShotsObject(ShotsKey, arr) : arr \in ShotArrays}
    \cup {w.pre \o c \o w.post : c \in CoreTexts, w \in Wrappers}
    \cup {Without(c, "{") : c \in CoreTexts}
    \cup {Without(c, "}") : c \in CoreTexts}
    \cup RawShotTexts
    \cup {<< >>, <<"[", "]">>, <<"[">> \o QuotedText(DeepText) \o <<"]">>,
          NullText, QuotedText(DeepText), <<"5">>, <<"}", " ", "{">>}

InitNormalizer ==
    /\ activeChatSessions = EmptyRec
    /\ chats = << >>
    /\ clock = 0
    /\ task = [a \in Tasks |-> IdleTask]
    /\ ask = [q \in Askers |-> IdleAsk]
    /\ rawText \in NormInputs
    /\ cleanResponse = rawText
    /\ normPc = "raw"
    /\ normShots = << >>
    /\ PageIdle

\* gemini.ts:199-230 on rawText
Normalize ==
    /\ normPc = "raw"
    /\ cleanResponse' = CleanResponse(rawText)
    /\ normShots' = NormalizeShots(rawText)
    /\ normPc' = "done"
    /\ UNCHANGED <<rawText, orchVars, pageVars>>

SpecNormalizer == InitNormalizer /\ [][Normalize]_vars

-----------------------------------------------------------------------------
(* gemini.ts:327-330  isValidYouTubeUrl, and the URL field of the page     *)
(* that calls it on every change.                                          *)

IdLength == 11
IdChar   == Lower \cup Upper \cup Digit \cup {"_", "-"}

HttpText    == <<"h","t","t","p">>
SchemeEnd   == <<":","/","/">>
WwwText     == <<"w","w","w",".">>
WatchHost   == <<"y","o","u","t","u","b","e",".","c","o","m","/","w","a","t","c","h","?","v","=">>
ShortHost   == <<"y","o","u","t","u",".","b","e","/">>

\* ^(https?:\/\/)? : the positions the rest of the pattern can start at
AfterScheme(url) ==
    {1}
    \cup {Len(HttpText \o sec \o SchemeEnd) + 1 :
             sec \in {x \in {<< >>, <<"s">>} : LitAt(url, 1, HttpText \o x \o SchemeEnd)}}

\* (www\.)?
AfterWww(url) ==
    AfterScheme(url)
    \cup {p + Len(WwwText) : p \in {q \in AfterScheme(url) : LitAt(url, q, WwwText)}}

\* (youtube\.com\/watch\?v=|youtu\.be\/)
AfterHost(url) ==
    UNION {{p + Len(h) : h \in {x \in {WatchHost, ShortHost} : LitAt(url, p, x)}} :
              p \in AfterWww(url)}

\* isValidYouTubeUrl without the $ anchor
isValidYouTubeUrlUnanchored(url) ==
    \E p \in AfterHost(url) :
        /\ Len(url) >= p + IdLength - 1
        /\ \A k \in p..(p + IdLength - 1) : url[k] \in IdChar

\* [a-zA-Z0-9_-]{11}$ : eleven id characters, then the end of the input
isValidYouTubeUrl(url) ==
    \E p \in AfterHost(url) :
        /\ Len(url) = p + IdLength - 1
        /\ \A k \in p..Len(url) : url[k] \in IdChar

UrlErrorMessage == "Please enter a valid YouTube URL"

\* part_000:41-49
handleYoutubeUrlChange(url) ==
    /\ youtubeUrl' = url
    /\ urlError' = IF url # << >> /\ ~isValidYouTubeUrl(url)
                   THEN UrlErrorMessage ELSE NullError
    /\ UNCHANGED <<orchVars, normVars, chatVars>>

\* the texts typed into the field
UrlInputs ==
    LET prefixes == {<< >>, <<"x">>}
        schemes  == {<< >>, HttpText \o SchemeEnd, HttpText \o <<"s">> \o SchemeEnd, <<"f","t","p",":","/","/">>}
        wwws     == {<< >>, WwwText}
        hosts    == {WatchHost, ShortHost, <<"y","o","u","t","u","b","e","X","c","o","m","/","w","a","t","c","h","?","v","=">>, <<"v","i","m","e","o",".","c","o","m","/">>}
        ids      == {<<"d","Q","w","4","w","9","W","g","X","c","Q">>, <<"a","_","b","-","c","_","d","-","e","_","f">>, <<"d","Q","w","4","w","9","W","g","X","c">>, <<"d","Q","w","4","w","9","W","g","X","c","Q","1">>, <<"d","Q","w","4","w","9","W","g","X","c","!">>, << >>}
        suffixes == {<< >>, <<"\n">>, <<"&","t","=","1">>}
    IN  {a \o b \o c \o d \o e \o f :
            a \in prefixes, b \in schemes, c \in wwws,
            d \in hosts, e \in ids, f \in suffixes}

NextUrl == \E url \in UrlInputs : handleYoutubeUrlChange(url)

SpecUrl == Init /\ [][NextUrl]_vars

-----------------------------------------------------------------------------
(* The page, part_000: its state, and its handlers cut at their awaits on  *)
(* analyzeVideo and askFollowUpQuestion. A message of chatHistory carries, *)
(* besides the role and the content the code keeps, the session it belongs *)
(* to: the id passed to askFollowUpQuestion, or the id of the result whose *)
(* summary it is.                                                          *)

NotesFile  == [name |-> "notes.txt", type |-> "text/plain"]
\* file.type.startsWith("video/")
VideoTypes == {"video/mp4"}

\* the texts typed into the URL field while the page is used: none, a
\* YouTube URL, and a text that is not one
PageUrlInputs ==
    LET id == <<"d","Q","w","4","w","9","W","g","X","c","Q">>
    IN  {<< >>, HttpText \o <<"s">> \o SchemeEnd \o ShortHost \o id,
         HttpText \o <<"s">> \o SchemeEnd \o ShortHost}

\* part_000:162, 169
setInputMethod(m) ==
    /\ inputMethod' = m
    /\ UNCHANGED <<orchVars, normVars, urlVars, videoFile, isAnalyzing,
                   analysisResult, followUpQuestion, isAskingQuestion,
                   chatHistory, pendingAnalyze, pendingAsk>>

\* part_000:33-39
handleFileChange(file) ==
    /\ IF file.type \in VideoTypes
       THEN videoFile' = file /\ analysisResult' = EmptyRec
       ELSE UNCHANGED <<videoFile, analysisResult>>
    /\ UNCHANGED <<orchVars, normVars, urlVars, inputMethod, isAnalyzing,
                   followUpQuestion, isAskingQuestion, chatHistory,
                   pendingAnalyze, pendingAsk>>

\* part_000:448, 457: the question field, shown with a result and
\* disabled while a question awaits its answer
setFollowUpQuestion(text) ==
    /\ analysisResult # EmptyRec
    /\ ~isAskingQuestion
    /\ followUpQuestion' = text
    /\ UNCHANGED <<orchVars, normVars, urlVars, inputMethod, videoFile,
                   isAnalyzing, analysisResult, isAskingQuestion, chatHistory,
                   pendingAnalyze, pendingAsk>>

\* part_000:296: the Analyze button is enabled
AnalyzeEnabled ==
    /\ ~isAnalyzing
    /\ IF inputMethod = "file" THEN videoFile # NoFile
       ELSE youtubeUrl # << >> /\ urlError = NullError

\* part_000:71-93: the videoSource of the page, the custom prompt empty and
\* the facets other than the summary unticked
PageVideoSource(includeSummary) ==
    [type |-> inputMethod,
     data |-> IF inputMethod = "file" THEN videoFile ELSE youtubeUrl,
     customPrompt |-> Undef,
     includeTranscription |-> FALSE,
     includeVisualDescription |-> FALSE,
     includeShotAnalysis |-> FALSE,
     includeLipFlapAnalysis |-> FALSE,
     includeSummary |-> IF includeSummary THEN "true" ELSE "false"]

\* part_000:51-94: a click on Analyze, up to the await on analyzeVideo
handleAnalyze(a, includeSummary) ==
    /\ AnalyzeEnabled
    /\ inputMethod = "file" => videoFile # NoFile
    /\ inputMethod = "youtube" =>
           youtubeUrl # << >> /\ isValidYouTubeUrl(youtubeUrl)
    /\ isAnalyzing' = TRUE
    /\ chatHistory' = << >>
    /\ pendingAnalyze' = [task |-> a]
    /\ AnalyzeVideoCall(a, PageVideoSource(includeSummary))
    /\ UNCHANGED <<clock, ask, normVars, urlVars, inputMethod, videoFile,
                   analysisResult, followUpQuestion, isAskingQuestion,
                   pendingAsk>>

\* part_000:94-112: analyzeVideo has returned
handleAnalyzeResumed ==
    /\ pendingAnalyze.task # 0
    /\ task[pendingAnalyze.task].pc \in {"done", "failed"}
    /\ LET result == task[pendingAnalyze.task].result
       IN  /\ analysisResult' = result
           /\ chatHistory' =
                  IF "summary" \in DOMAIN result /\ result.summary # ""
                  THEN <<[role |-> "assistant", content |-> result.summary,
                          session |-> result.sessionId]>>
                  ELSE chatHistory
    /\ isAnalyzing' = FALSE
    /\ pendingAnalyze' = [task |-> 0]
    /\ UNCHANGED <<orchVars, normVars, urlVars, inputMethod, videoFile,
                   followUpQuestion, isAskingQuestion, pendingAsk>>

\* part_000:115-124 and 457-461: a question sent, up to the await on
\* askFollowUpQuestion
handleAskQuestion(q) ==
    /\ analysisResult # EmptyRec
    /\ ~isAskingQuestion
    /\ followUpQuestion # ""
    /\ "sessionId" \in DOMAIN analysisResult
    /\ isAskingQuestion' = TRUE
    /\ chatHistory' = Append(chatHistory,
                             [role |-> "user", content |-> followUpQuestion,
                              session |-> analysisResult.sessionId])
    /\ pendingAsk' = [asker |-> q]
    /\ AskFollowUpQuestionCall(q, analysisResult.sessionId, followUpQuestion)
    /\ UNCHANGED <<activeChatSessions, clock, task, normVars, urlVars,
                   inputMethod, videoFile, isAnalyzing, analysisResult,
                   followUpQuestion, pendingAnalyze>>

\* part_000:124-136: askFollowUpQuestion has returned
handleAskQuestionResumed ==
    /\ pendingAsk.asker # 0
    /\ ask[pendingAsk.asker].pc = "returned"
    /\ chatHistory' = Append(chatHistory,
                             [role |-> "assistant",
                              content |-> ask[pendingAsk.asker].result,
                              session |-> ask[pendingAsk.asker].sessionId])
    /\ followUpQuestion' = ""
    /\ isAskingQuestion' = FALSE
    /\ pendingAsk' = [asker |-> 0]
    /\ UNCHANGED <<orchVars, normVars, urlVars, inputMethod, videoFile,
                   isAnalyzing, analysisResult, pendingAnalyze>>

NextPage ==
    \/ \E m \in {"file", "youtube"} : setInputMethod(m)
    \/ \E file \in {ClipFile, NotesFile} : handleFileChange(file)
    \/ \E url \in PageUrlInputs : handleYoutubeUrlChange(url)
    \/ \E text \in Questions \cup {""} : setFollowUpQuestion(text)
    \/ \E a \in Tasks, includeSummary \in BOOLEAN : handleAnalyze(a, includeSummary)
    \/ \E a \in Tasks : EncodingDone(a)
    \/ \E a \in Tasks : SummaryDone(a)
    \/ handleAnalyzeResumed
    \/ \E q \in Askers : handleAskQuestion(q)
    \/ \E q \in Askers, answer \in Answers : SendMessageDone(q, answer)
    \/ \E q \in Askers : SendMessageFailed(q)
    \/ handleAskQuestionResumed

SpecPage == Init /\ [][NextPage]_vars

-----------------------------------------------------------------------------
(* Properties.                                                             *)

Last(seq) == seq[Len(seq)]
Has(rec, field) == field \in DOMAIN rec
Returned(a) == task[a].pc \in {"done", "failed"}

\* a generateContent call of invocation a ended without a text: it was
\* rejected (or, outside the shot block, its text() threw), or it was the
\* shot-analysis call and its text() threw
GatewayCallFailed(a) ==
    \/ task[a].pc = "failed" /\ task[a].calls # << >>
    \/ task[a].shotOutcome = Blocked

IsFailureResult(r) ==
    /\ Has(r, "error") /\ r.error = GenericFailure
    /\ Has(r, "summary") /\ r.summary = ""
    /\ ~Has(r, "transcription")
    /\ ~Has(r, "visualDescription")
    /\ ~Has(r, "shotAnalysis")
    /\ ~Has(r, "sessionId")

\* C1: all-or-nothing aggregation. When any Gateway call of an analysis has
\* failed, whatever succeeded before it, the result returned carries the
\* generic error and the empty summary and no transcription,
\* visualDescription, shotAnalysis or sessionId.
C1_AllOrNothing ==
    \A a \in Tasks :
        Returned(a) /\ GatewayCallFailed(a) => IsFailureResult(task[a].result)

\* C1, the part the code keeps: a rejected call always ends in the failure
\* result, with no session stored for the invocation
C1_RejectedCallFails ==
    \A a \in Tasks :
        task[a].pc = "failed" => IsFailureResult(task[a].result)

\* the text of the shot-analysis response gave no record
NormalizationFailed(a) ==
    /\ task[a].shotOutcome = "text"
    /\ NormalizeShots(task[a].shotText) = << >>

\* the calls issued after the shot-analysis call, oldest first
CallsAfterShot(a) ==
    LET k == CHOOSE i \in 1..Len(task[a].calls) : task[a].calls[i] = "shot"
    IN  SubSeq(task[a].calls, k + 1, Len(task[a].calls))

\* C2: a normalization failure never aborts an analysis. Whatever text the
\* shot-analysis call returned, if it yields no record the analysis goes on
\* to the next requested facet (transcription, then visual description) and
\* to the session opening; it fails only if a later call fails, and
\* otherwise returns a result without error and without shotAnalysis, whose
\* session is in the store.
C2_NormalizationFailureAbsorbed ==
    \A a \in Tasks :
        NormalizationFailed(a) =>
            LET t    == task[a]
                next == NextCall(t.src, Position("shot"))
            IN  /\ t.pc # "shot"
                /\ IF next = "open"
                   THEN CallsAfterShot(a) = << >> /\ t.pc = "done"
                   ELSE CallsAfterShot(a) # << >> /\ CallsAfterShot(a)[1] = next
                /\ t.pc = "failed" => Last(t.calls) # "shot"
                /\ t.pc = "done" =>
                       /\ ~Has(t.result, "error")
                       /\ ~Has(t.result, "shotAnalysis")
                       /\ Has(t.result, "sessionId")
                       /\ t.result.sessionId \in DOMAIN activeChatSessions

C2_Witness ==
    \E a \in Tasks :
        /\ NormalizationFailed(a)
        /\ task[a].shotText = Unparseable
        /\ task[a].pc = "done"
        /\ task[a].calls = <<"summary", "shot", "transcription", "visual">>
        /\ Has(task[a].result, "transcription")

\* C3: askFollowUpQuestion never raises. Called with an id that is not in
\* the store it returns the failure text at once, without sending anything
\* and without changing the store or any chat; when the send fails on a
\* known session it returns the failure text too. It ends in no other way
\* than by returning.
C3_FollowUpNeverRaises ==
    [][\A q \in Askers :
          /\ ask'[q].pc \in {"idle", "sending", "returned"}
          /\ ( /\ ask[q].pc = "idle"
               /\ ask'[q].pc # "idle"
               /\ ask'[q].sessionId \notin DOMAIN activeChatSessions )
             => /\ ask'[q].pc = "returned"
                /\ ask'[q].result = FollowUpFailure
                /\ chats' = chats
                /\ activeChatSessions' = activeChatSessions
          /\ ( /\ ask[q].pc = "sending"
               /\ ask'[q].pc # "sending"
               /\ chats'[ask[q].chat].history = chats[ask[q].chat].history )
             => /\ ask'[q].pc = "returned"
                /\ ask'[q].result = FollowUpFailure
                /\ activeChatSessions' = activeChatSessions
      ]_vars

C3_Witness ==
    \E q, r \in Askers :
        /\ ask[q].pc = "returned"
        /\ ask[q].sessionId = UnknownSessionId
        /\ ask[q].result = FollowUpFailure
        /\ ask[r].pc = "returned"
        /\ ask[r].sessionId \in DOMAIN activeChatSessions
        /\ ask[r].chat # 0
        /\ ask[r].result = FollowUpFailure

\* C4: a successful askFollowUpQuestion on a known id sends on the chat of
\* the session stored under that id, and appends exactly one pair (the
\* question as user turn, the answer as model turn) at the end of that
\* chat's history; the history of every other chat, and the store with the
\* payload of every session, stay as they were.
C4_FollowUpAppendsOnePair ==
    [][\A q \in Askers :
          /\ (ask[q].pc = "idle" /\ ask'[q].pc = "sending")
             => ask'[q].chat = activeChatSessions[ask'[q].sessionId].chat
          /\ ( /\ ask[q].pc = "sending"
               /\ ask'[q].pc = "returned"
               /\ ask'[q].result # FollowUpFailure )
             => /\ chats'[ask[q].chat].history =
                       chats[ask[q].chat].history
                       \o <<[role |-> "user",  text |-> ask[q].question],
                            [role |-> "model", text |-> ask'[q].result]>>
                /\ Len(chats') = Len(chats)
                /\ \A d \in 1..Len(chats) :
                       d # ask[q].chat => chats'[d].history = chats[d].history
                /\ activeChatSessions' = activeChatSessions
      ]_vars

C4_Witness ==
    \E q \in Askers :
        /\ ask[q].pc = "returned"
        /\ ask[q].result \in Answers
        /\ Len(chats) = 2
        /\ ask[q].chat = 1
        /\ Len(chats[1].history) = 4
        /\ Len(chats[2].history) = 2

\* C5: every analysis that completes without error, whatever facets were
\* requested (none included), stores exactly one session, under the
\* sessionId it returns, leaving the sessions under other ids alone; the
\* chat of that session is new and its history is exactly the summary
\* prompt as user turn and the summary text as model turn, the summary text
\* being empty when the summary was not requested.
C5_SessionSeeded ==
    [][\A a \in Tasks :
          (task[a].pc # "done" /\ task'[a].pc = "done") =>
              LET t  == task'[a]
                  id == t.result.sessionId
              IN  /\ ~Has(t.result, "error")
                  /\ DOMAIN activeChatSessions' = DOMAIN activeChatSessions \cup {id}
                  /\ \A other \in DOMAIN activeChatSessions :
                         other # id =>
                             activeChatSessions'[other] = activeChatSessions[other]
                  /\ Len(chats') = Len(chats) + 1
                  /\ activeChatSessions'[id].chat = Len(chats')
                  /\ activeChatSessions'[id].videoData = t.videoData
                  /\ chats'[Len(chats')].history =
                         <<[role |-> "user",  text |-> SummaryPrompt(t.src)],
                           [role |-> "model", text |-> t.summary]>>
                  /\ t.src.includeSummary = "false" => t.summary = ""
      ]_vars

C5_Witness ==
    \E a \in Tasks :
        /\ task[a].pc = "done"
        /\ task[a].src.includeSummary = "false"
        /\ task[a].src.customPrompt # Undef
        /\ task[a].calls = << >>
        /\ task[a].result.sessionId \in DOMAIN activeChatSessions
        /\ chats[activeChatSessions[task[a].result.sessionId].chat].history[2].text = ""

SameSource(s1, s2) ==
    /\ s1.type = s2.type
    /\ IF s1.type = "file" THEN s1.data.name = s2.data.name ELSE s1.data = s2.data

BothDone(a, b) == a # b /\ task[a].pc = "done" /\ task[b].pc = "done"

OnlySummary(src) ==
    /\ src.includeSummary = "true"
    /\ ~src.includeShotAnalysis
    /\ ~src.includeTranscription
    /\ ~src.includeVisualDescription

OnlySessionAndSummary(r) ==
    /\ ~Has(r, "transcription")
    /\ ~Has(r, "visualDescription")
    /\ ~Has(r, "shotAnalysis")
    /\ ~Has(r, "lipFlapAnalysis")
    /\ ~Has(r, "error")
    /\ Has(r, "sessionId")

\* C7 as stated: when only includeSummary is true and the Gateway succeeds,
\* one Gateway call is issued and the result has summary populated, no
\* transcription, visualDescription, shotAnalysis or lipFlapAnalysis, a
\* sessionId and no error.
C7_SummaryOnly ==
    \A a \in Tasks :
        (task[a].pc = "done" /\ OnlySummary(task[a].src)) =>
            /\ task[a].calls = <<"summary">>
            /\ Has(task[a].result, "summary")
            /\ task[a].result.summary # ""
            /\ OnlySessionAndSummary(task[a].result)

\* C7 as amended: when only includeSummary is true and the Gateway succeeds,
\* one Gateway call is issued and the result has no transcription,
\* visualDescription, shotAnalysis or lipFlapAnalysis, no error and the
\* sessionId of a stored session; its summary is the text the call
\* returned when that text is not empty, and is absent when it is empty.
C7_SummaryOnlyNonEmpty ==
    \A a \in Tasks :
        (task[a].pc = "done" /\ OnlySummary(task[a].src)) =>
            /\ task[a].calls = <<"summary">>
            /\ task[a].summary \in Replies("summary")
            /\ IF task[a].summary # ""
               THEN Has(task[a].result, "summary")
                    /\ task[a].result.summary = task[a].summary
               ELSE ~Has(task[a].result, "summary")
            /\ OnlySessionAndSummary(task[a].result)
            /\ task[a].result.sessionId \in DOMAIN activeChatSessions

C7_Witness ==
    \E a \in Tasks :
        /\ task[a].pc = "done"
        /\ OnlySummary(task[a].src)
        /\ Has(task[a].result, "summary")
        /\ task[a].result.summary = "a summary"

NoFacet(src) ==
    /\ src.includeSummary = "false"
    /\ ~src.includeShotAnalysis
    /\ ~src.includeTranscription
    /\ ~src.includeVisualDescription

\* C8: requesting no facet (every inclusion flag false) is not an error. No
\* Gateway call is ever issued; the analysis can fail only in the encoding
\* of a file, and otherwise returns a result without summary,
\* transcription, visualDescription, shotAnalysis and error, which carries
\* the sessionId of a stored session.
C8_NoFacetNoError ==
    \A a \in Tasks :
        (task[a].pc # "idle" /\ NoFacet(task[a].src)) =>
            /\ task[a].calls = << >>
            /\ task[a].pc \in {"encoding", "done", "failed"}
            /\ task[a].pc = "failed" => task[a].src.type = "file"
            /\ task[a].pc = "done" =>
                   /\ DOMAIN task[a].result = {"sessionId"}
                   /\ task[a].result.sessionId \in DOMAIN activeChatSessions

C8_Witness ==
    \E a \in Tasks :
        /\ task[a].pc = "done"
        /\ NoFacet(task[a].src)
        /\ task[a].src.type = "file"
        /\ DOMAIN task[a].result = {"sessionId"}

NoOpeningBrace(text) == IndexOf(text, "{") = 0
NoClosingBrace(text) == IndexOf(text, "}") = 0

\* C9: for every raw text that holds no { or holds no }, the normalizer
\* fails closed: the record list is empty, so that the result of the
\* analysis carries no shotAnalysis.
C9_NoBraceFailsClosed ==
    (normPc = "done" /\ (NoOpeningBrace(rawText) \/ NoClosingBrace(rawText))) =>
        /\ normShots = << >>
        /\ ~Has(SuccessResult([IdleTask EXCEPT !.shotAnalysis = normShots],
                              UnknownSessionId), "shotAnalysis")

\* a text without braces that JSON.parse accepts, as a non-empty array
C9_Witness ==
    /\ normPc = "done"
    /\ NoOpeningBrace(rawText)
    /\ NoClosingBrace(rawText)
    /\ JSONParse(cleanResponse).ok
    /\ JSONParse(cleanResponse).val[1] = "arr"
    /\ JSONParse(cleanResponse).val[2] # << >>
    /\ normShots = << >>

\* every scalar of a parsed value is a string
RECURSIVE AllStrings(_)
AllStrings(v) ==
    CASE v[1] = "str" -> TRUE
      [] v[1] = "arr" -> \A i \in 1..Len(v[2]) : AllStrings(v[2][i])
      [] v[1] = "obj" -> \A k \in DOMAIN v[2] : AllStrings(v[2][k])
      [] OTHER -> FALSE

\* the text is JSON as it stands, with every key and value double-quoted
WellFormed(text) == JSONParse(text).ok /\ AllStrings(JSONParse(text).val)

\* C10: for every well-formed shot-analysis JSON text (keys and values
\* double-quoted, no trailing comma) the record list returned is the list
\* obtained by parsing the original text directly.
C10_WellFormedUnchanged ==
    (normPc = "done" /\ WellFormed(rawText)) =>
        normShots = AcceptShots(JSONParse(rawText))

\* the text T between an opening fence, with or without the json tag, and a
\* closing fence, each on its own line or on the line of T
FencedForms(text) ==
    {FenceJson \o <<"\n">> \o text \o <<"\n">> \o Fence,
     Fence \o <<"\n">> \o text \o <<"\n">> \o Fence,
     FenceJson \o text \o Fence,
     Fence \o text \o Fence}

\* C11: for every shot-analysis text T, normalizing T wrapped in code
\* fences (opening fence with or without the json tag, closing fence)
\* yields the same record list as normalizing T itself.
C11_FencedSameAsUnfenced ==
    normPc = "done" =>
        \A fenced \in FencedForms(rawText) : NormalizeShots(fenced) = normShots

\* an unfenced text that yields a record, and yields it when fenced too
C11_Witness ==
    /\ normPc = "done"
    /\ IndexOf(rawText, Backtick) = 0
    /\ normShots # << >>
    /\ NormalizeShots(FenceJson \o rawText \o Fence) = normShots

\* the raw text of a shots object holding the one record of members ms
OneRecordText(ms, tc, tcArray) ==
    ShotsObject(QuotedText(ShotsKey),
                <<"[">> \o RecordText(ms, tc) \o tcArray \o <<"]">>)

\* does part occur in s as a contiguous run
Contains(s, part) == \E i \in 1..Len(s) : LitAt(s, i, part)

\* the unquoted value of member j came out quoted, the parse succeeded and
\* the one record has field j equal to the token as a string
BareMemberQuoted(j) ==
    /\ Contains(cleanResponse,
                QuotedText(FieldNames[j]) \o <<":">> \o QuotedText(EyeLevelText))
    /\ JSONParse(cleanResponse).ok
    /\ Len(normShots) = 1
    /\ normShots[1][1] = "obj"
    /\ FieldNames[j] \in DOMAIN normShots[1][2]
    /\ normShots[1][2][FieldNames[j]] = JStr(EyeLevelText)

HasProseValue(ms) == \E j \in 1..Len(ms) : ms[j].value = QuotedText(ProseText)

\* C12: for a shot-analysis text in which a value is emitted without quotes
\* (a bare token after the colon and before a comma or a closing brace),
\* the repairs wrap that token in double quotes, the parse succeeds and the
\* record has that field equal to the token as a string.
C12_UnquotedValueQuoted ==
    normPc = "done" =>
        \A ms \in MemberLists, tc, tcArray \in {<< >>, <<",">>} :
            rawText = OneRecordText(ms, tc, tcArray) =>
                \A j \in 1..Len(ms) :
                    ms[j].value = BareValue => BareMemberQuoted(j)

\* C12 on the texts whose other values hold no colon inside a string
C12_UnquotedValueQuotedWithoutProse ==
    normPc = "done" =>
        \A ms \in MemberLists, tc, tcArray \in {<< >>, <<",">>} :
            (rawText = OneRecordText(ms, tc, tcArray) /\ ~HasProseValue(ms)) =>
                \A j \in 1..Len(ms) :
                    ms[j].value = BareValue => BareMemberQuoted(j)

\* the indexes of the commas of text that stand before a closing brace or
\* bracket, with nothing but blanks between
TrailingCommas(text) ==
    {i \in 1..Len(text) :
        /\ text[i] = ","
        /\ LET k == SkipClass(text, i + 1, Space)
           IN  k <= Len(text) /\ text[k] \in {"}", "]"}}

\* text without the characters at the indexes in drop
RemoveAt(text, drop) ==
    LET indexed == [i \in 1..Len(text) |-> <<i, text[i]>>]
        kept    == SelectSeq(indexed, LAMBDA p : p[1] \notin drop)
    IN  [j \in 1..Len(kept) |-> kept[j][2]]

\* the text the trailing-comma repair of this run receives
BeforeCommaRepair == FixNamesAndValues(SliceBraces(StripFences(rawText)))

\* C13: the trailing-comma repair removes exactly the commas that stand
\* before a closing brace or bracket: every other character of the text,
\* the commas between properties and between array items included, is
\* left as it was, and the records are those of the text without these
\* commas.
C13_TrailingCommaOnly ==
    normPc = "done" =>
        LET before == BeforeCommaRepair
            after  == ReplaceAll(before, "trailingComma")
        IN  /\ after = RemoveAt(before, TrailingCommas(before))
            /\ cleanResponse = ReplaceAll(after, "undefined")
            /\ normShots =
                   NormalizeShots(RemoveAt(rawText, TrailingCommas(rawText)))

\* two properties and a trailing comma in the record and in the array: the
\* separating comma stays, the two others go, and the record is returned
C13_Witness ==
    /\ normPc = "done"
    /\ Cardinality(TrailingCommas(BeforeCommaRepair)) = 2
    /\ \E i \in 1..Len(cleanResponse) : cleanResponse[i] = ","
    /\ TrailingCommas(cleanResponse) = {}
    /\ Len(cleanResponse) = Len(BeforeCommaRepair) - 2
    /\ Len(normShots) = 1

\* an optional http:// or https://, an optional www., youtube.com/watch?v=
\* or youtu.be/, then exactly eleven characters of A-Z a-z 0-9 _ - and the end
HasYouTubeForm(url) ==
    \E scheme \in {<< >>, <<"h","t","t","p",":","/","/">>, <<"h","t","t","p","s",":","/","/">>},
       www \in {<< >>, <<"w","w","w",".">>},
       host \in {<<"y","o","u","t","u","b","e",".","c","o","m","/","w","a","t","c","h","?","v","=">>, <<"y","o","u","t","u",".","b","e","/">>} :
        LET prefix == scheme \o www \o host
        IN  /\ Len(url) = Len(prefix) + 11
            /\ SubSeq(url, 1, Len(prefix)) = prefix
            /\ \A k \in (Len(prefix) + 1)..Len(url) :
                   url[k] \in Lower \cup Upper \cup Digit \cup {"_", "-"}

\* C14: isValidYouTubeUrl returns true exactly for the texts made of an
\* optional http:// or https://, an optional www., then youtube.com/watch?v=
\* or youtu.be/, then exactly 11 characters of A-Z a-z 0-9 _ - and nothing
\* after; the page shows no error for exactly these texts.
C14_ValidExactlyYouTubeForm ==
    youtubeUrl # << >> =>
        /\ isValidYouTubeUrl(youtubeUrl) <=> HasYouTubeForm(youtubeUrl)
        /\ urlError = NullError <=> HasYouTubeForm(youtubeUrl)

\* the canonical long form is accepted
C14_Witness ==
    /\ youtubeUrl = <<"h","t","t","p","s",":","/","/","w","w","w",".","y","o","u","t","u","b","e",".","c","o","m","/","w","a","t","c","h","?","v","=","d","Q","w","4","w","9","W","g","X","c","Q">>
    /\ urlError = NullError

\* gemini.ts:19-23: the closed sets of the tags the generated records carry
ClosedSet(field) ==
    CASE field = FieldNames[1] ->    \* lens
            {<<"s","h","a","l","l","o","w">>, <<"d","e","e","p">>}
      [] field = FieldNames[2] ->    \* angle
            {<<"e","y","e","-","l","e","v","e","l">>, <<"h","i","g","h">>, <<"l","o","w">>, <<"d","u","t","c","h">>, <<"o","v","e","r","h","e","a","d">>, <<"a","e","r","i","a","l">>}
      [] field = FieldNames[3] ->    \* frame
            {<<"w","i","d","e">>, <<"c","o","w","b","o","y">>, <<"m","e","d","i","u","m">>, <<"c","u">>, <<"e","c","u">>}
      [] field = FieldNames[4] ->    \* camera
            {<<"s","t","a","t","i","c">>, <<"h","a","n","d","h","e","l","d">>, <<"s","t","e","a","d","i","c","a","m">>, <<"d","o","l","l","y">>, <<"j","i","b">>, <<"c","r","a","n","e">>, <<"d","r","o","n","e">>}

TaggedFields == {FieldNames[j] : j \in 1..Len(FieldNames)}

\* C15: every record of a returned shotAnalysis list has each categorical
\* tag it carries inside the declared closed set of that tag; a record
\* with an unrecognized value is not returned.
C15_ClosedEnumerations ==
    normPc = "done" =>
        \A i \in 1..Len(normShots) :
            /\ normShots[i][1] = "obj"
            /\ \A field \in (DOMAIN normShots[i][2]) \cap TaggedFields :
                   /\ normShots[i][2][field][1] = "str"
                   /\ normShots[i][2][field][2] \in ClosedSet(field)

FacetRank(facet) ==
    CASE facet = "summary"       -> 1
      [] facet = "shot"          -> 2
      [] facet = "transcription" -> 3
      [] facet = "visual"        -> 4
      [] facet = "lipFlap"       -> 5

Awaiting(t) == t.pc \in {"summary", "shot", "transcription", "visual", "lipFlap"}

\* a step of invocation a that issues a Gateway call: the call is for a
\* facet later in the order than every call issued before, and no call is
\* outstanding any more when it starts, the step being the completion of
\* the previous call or the start of the run
IssuesInOrder(a) ==
    task'[a].calls # task[a].calls =>
        /\ Len(task'[a].calls) = Len(task[a].calls) + 1
        /\ SubSeq(task'[a].calls, 1, Len(task[a].calls)) = task[a].calls
        /\ \A i \in 1..Len(task[a].calls) :
               FacetRank(task[a].calls[i]) < FacetRank(Last(task'[a].calls))
        /\ task'[a].pc = Last(task'[a].calls)
        /\ IF Awaiting(task[a])
           THEN task[a].pc = Last(task[a].calls)
           ELSE task[a].pc \in {"idle", "encoding"} /\ task[a].calls = << >>

\* a step of invocation a that stores a session: no call is issued by it,
\* and the call the invocation was waiting for, if any, was its last
OpensAfterLastCall(a) ==
    (task'[a].pc = "done" /\ task[a].pc # "done") =>
        /\ task'[a].calls = task[a].calls
        /\ Awaiting(task[a]) => task[a].pc = Last(task[a].calls)
        /\ activeChatSessions # activeChatSessions'

\* C17: within one invocation the facet calls are issued one after the
\* other in the order summary, shot analysis, transcription, visual
\* description: a call starts only when the previous one has completed, and
\* the session is opened only after the last call has completed.
C17_StrictSequencing ==
    [][/\ \A a \in Tasks : IssuesInOrder(a) /\ OpensAfterLastCall(a)
       /\ activeChatSessions' # activeChatSessions =>
              \E a \in Tasks : task'[a].pc = "done" /\ task[a].pc # "done"
       /\ \A a \in Tasks : Awaiting(task'[a]) =>
              task'[a].pc = Last(task'[a].calls)]_vars

\* the four calls were issued and the session is stored
C17_Witness ==
    /\ task[1].pc = "done"
    /\ task[1].calls = <<"summary", "shot", "transcription", "visual">>
    /\ task[1].result.sessionId \in DOMAIN activeChatSessions

\* the number of calls issued for a facet
Attempts(t, facet) ==
    Cardinality({i \in 1..Len(t.calls) : t.calls[i] = facet})

\* the three flags that are plain booleans
FlagSet(src, facet) ==
    CASE facet = "shot"          -> src.includeShotAnalysis
      [] facet = "transcription" -> src.includeTranscription
      [] facet = "visual"        -> src.includeVisualDescription

C19_EncoderFailureFails ==
    [][\A a \in Tasks :
          (task[a].pc = "encoding" /\ task'[a].pc # "encoding") =>
              \/ /\ task'[a].pc = "failed"
                 /\ task'[a].calls = << >>
                 /\ task'[a].result = [summary |-> "", error |-> GenericFailure]
                 /\ activeChatSessions' = activeChatSessions
                 /\ chats' = chats
              \/ /\ task'[a].pc # "failed"
                 /\ task'[a].videoData.inlineData.data
                        = fileToBase64(task[a].src.data)]_vars

\* a File source with every facet requested, failed before any call
C19_Witness ==
    /\ task[1].pc = "failed"
    /\ task[1].src.type = "file"
    /\ task[1].src.includeSummary = "true"
    /\ task[1].src.includeShotAnalysis
    /\ task[1].calls = << >>
    /\ task[1].result = FailureResult
    /\ activeChatSessions = EmptyRec

\* C20: the normalizer never partially applies: its output is the entire
\* shots array of the parsed object, same length, same order, no element
\* dropped, filtered or altered, or it is the empty list (the parse failed,
\* the parsed value is not an object, shots is absent or not an array).
\* A text that lists several well-formed records yields each of them, as
\* parsed on its own, at its place.
C20_WholeArrayOrNothing ==
    normPc = "done" =>
        LET parsed == JSONParse(cleanResponse)
        IN  /\ IF parsed.ok /\ HasShotsArray(parsed.val)
               THEN normShots = parsed.val[2][ShotsKey][2]
               ELSE normShots = << >>
            /\ \A rs \in ShotLists :
                   rawText = ShotsObject(QuotedText(ShotsKey), ArrayText(rs)) =>
                       /\ Len(normShots) = Len(rs)
                       /\ \A i \in 1..Len(rs) :
                              normShots[i] = JSONParse(rs[i]).val

\* three records returned, the second one without a property
C20_Witness ==
    /\ normPc = "done"
    /\ \E rs \in ShotLists :
           /\ rawText = ShotsObject(QuotedText(ShotsKey), ArrayText(rs))
           /\ Len(rs) = 3
           /\ rs[2] = <<"{", "}">>
           /\ rs[1] # rs[3]
    /\ Len(normShots) = 3
    /\ DOMAIN normShots[2][2] = {}
    /\ normShots[1] # normShots[3]

\* the value undefined of member j came out as null: the parse succeeded
\* and the one record has field j equal to null
UndefinedMemberNull(j) ==
    /\ JSONParse(cleanResponse).ok
    /\ Len(normShots) = 1
    /\ normShots[1][1] = "obj"
    /\ FieldNames[j] \in DOMAIN normShots[1][2]
    /\ normShots[1][2][FieldNames[j]][1] = "null"

\* C21: for a shot-analysis text in which a property has the bare literal
\* value undefined, under a quoted or a bare name, the repairs applied in
\* their order rewrite that value to null: the parse succeeds and the
\* record's field is null, not the string "undefined".  Stated on the texts
\* whose other values hold no colon inside a string.
C21_UndefinedBecomesNull ==
    normPc = "done" =>
        \A ms \in MemberLists, tc, tcArray \in {<< >>, <<",">>} :
            (rawText = OneRecordText(ms, tc, tcArray) /\ ~HasProseValue(ms)) =>
                \A j \in 1..Len(ms) :
                    ms[j].value = Undefined => UndefinedMemberNull(j)

\* the askers whose call on chat c is suspended on its sendMessage
Suspended(c) == {r \in Askers : ask[r].pc = "sending" /\ ask[r].chat = c}

\* asker r called on its chat before asker q did, both being suspended
CalledBefore(r, q) ==
    LET queue == chats[ask[q].chat].sending
    IN  \E i, j \in 1..Len(queue) : i < j /\ queue[i] = r /\ queue[j] = q

\* no call made earlier on the chat of q is still suspended
FirstOfItsChat(q) == \A r \in Suspended(ask[q].chat) : ~CalledBefore(r, q)

C23_NoEviction ==
    [][/\ DOMAIN activeChatSessions \subseteq DOMAIN activeChatSessions'
       /\ \A a \in Tasks :
              task'[a].pc = "done" =>
                  task'[a].result.sessionId \in DOMAIN activeChatSessions'
       /\ \A q \in Askers :
              ( /\ ask[q].pc = "idle"
                /\ ask'[q].pc # "idle"
                /\ \E a \in Tasks : /\ task[a].pc = "done"
                                     /\ task[a].result.sessionId = ask'[q].sessionId )
              => /\ ask'[q].pc = "sending"
                 /\ ask'[q].chat = activeChatSessions[ask'[q].sessionId].chat
      ]_vars

\* two sessions stored; a question on the older one was answered, and
\* another analysis and another question have failed
C23_Witness ==
    \E a, b \in Tasks, q, r \in Askers :
        /\ task[a].pc = "done"
        /\ task[b].pc = "done"
        /\ task[a].openedAt < task[b].openedAt
        /\ task[a].result.sessionId # task[b].result.sessionId
        /\ ask[q].pc = "returned"
        /\ ask[q].sessionId = task[a].result.sessionId
        /\ ask[q].result \in Answers
        /\ Len(chats[task[a].chat].history) = 4
        /\ ask[r].pc = "returned"
        /\ ask[r].result = FollowUpFailure

\* C24: every result returned by analyzeVideo carries exactly one of error
\* and sessionId. A result with error has no sessionId and no field but
\* error and summary, the summary being empty; a result without error has
\* a sessionId, which is a key of the session store at the moment of
\* return.
C24_ErrorXorSessionId ==
    [][\A a \in Tasks :
          ( /\ task[a].pc \notin {"done", "failed"}
            /\ task'[a].pc \in {"done", "failed"} ) =>
              LET r == task'[a].result
              IN  /\ Has(r, "error") # Has(r, "sessionId")
                  /\ Has(r, "error") =>
                         /\ DOMAIN r = {"summary", "error"}
                         /\ r.summary = ""
                  /\ Has(r, "sessionId") =>
                         r.sessionId \in DOMAIN activeChatSessions'
                  /\ task'[a].pc = "failed" <=> Has(r, "error")
      ]_vars

\* an analysis that failed on its transcription call, after its summary
\* call had given a text
C24_Witness ==
    /\ task[1].pc = "failed"
    /\ task[1].summary # ""
    /\ task[1].calls = <<"summary", "transcription">>
    /\ Has(task[1].result, "error")
    /\ task[1].result.summary = ""
    /\ ~Has(task[1].result, "sessionId")

\* the facets src asks for, in the order of their calls
RequestedCalls(src) == SelectSeq(FacetOrder, LAMBDA facet : Requested(src, facet))

\* C25: an analyzeVideo invocation that ends in failure leaves the session
\* store exactly as it was. The store and the chats are written only in
\* the step in which an invocation returns its success result, every
\* requested facet call having completed; every other step of an
\* invocation, the failing one included, leaves them alone: no session is
\* added, changed or replaced.
C25_FailureLeavesStore ==
    [][\A a \in Tasks :
          /\ (task[a].pc # "failed" /\ task'[a].pc = "failed") =>
                 /\ activeChatSessions' = activeChatSessions
                 /\ Len(chats') = Len(chats)
          /\ (task'[a].pc # task[a].pc /\ task'[a].pc # "done") =>
                 /\ activeChatSessions' = activeChatSessions
                 /\ Len(chats') = Len(chats)
          /\ (task'[a].pc # task[a].pc /\ task'[a].pc = "done") =>
                 task'[a].calls = RequestedCalls(task'[a].src)
      ]_vars

\* a session is stored, and an analysis started afterwards has failed on
\* its summary call: the store holds the one session, as it was
C25_Witness ==
    \E a, b \in Tasks :
        /\ task[a].pc = "done"
        /\ task[b].pc = "failed"
        /\ task[b].calls = <<"summary">>
        /\ DOMAIN activeChatSessions = {task[a].result.sessionId}
        /\ activeChatSessions[task[a].result.sessionId].chat = task[a].chat
        /\ Len(chats) = 1

\* C26: on the page, follow-up chat and analysis do not mix across videos:
\* every message of the chat history displayed belongs to the session of
\* the analysis result displayed with it, even when an analysis is started
\* while a question awaits its answer, or a question is asked while an
\* analysis is running.
C26_ChatOfDisplayedResult ==
    analysisResult # EmptyRec =>
        \A i \in 1..Len(chatHistory) :
            /\ "sessionId" \in DOMAIN analysisResult
            /\ chatHistory[i].session = analysisResult.sessionId

====
